---- MODULE Spec2Model ----
(***************************************************************************)
(* Gym tracker (src/app.py): a Streamlit application that keeps two        *)
(* worksheets of one Google spreadsheet, "Users" and "Logs", through       *)
(* gspread.  Every browser session runs the script in its own thread, and  *)
(* every worksheet call (get_all_records, get_all_values, delete_rows,     *)
(* append_row) is one request to the shared sheet: those requests are the  *)
(* atomic steps of the concurrent specifications below.                    *)
(*                                                                         *)
(* A worksheet is modelled by its data rows, the header row (sheet row 1)  *)
(* left out: data row k of the model is sheet row k + 1.                    *)
(*                                                                         *)
(* Cell texts that the code compares after gspread has converted them      *)
(* (usernames, password hashes) are sequences of one-character strings, so *)
(* that the conversion can be computed.  Dates, types and the JSON column  *)
(* never look like a number ("2024-03-01", "Rest", "[...]") and are kept as *)
(* plain values.                                                            *)
(***************************************************************************)
EXTENDS Integers, Sequences, FiniteSets, TLC

VARIABLES
    users,        \* data rows of the "Users" sheet: <<username, password hash>>
    logs,         \* data rows of the "Logs" sheet: <<username, date, type, data>>
    pc,           \* per session: the request its current call issues next
    call,         \* per session: arguments and locals of its current call
    ret,          \* the value returned by the call that completed last
    leader_data,  \* the leaderboard of the page run in progress (l.204)
    last,         \* history of SpecLogs: per key, the upsert completed last and not
                  \* deleted since, and whether it found a row to replace
    race,         \* history of SpecRace: the sheet when the calls now overlapping
                  \* began, and those calls when they are an upsert and a delete
    view,         \* what the logged-in page run completed last has drawn from the
                  \* sheet as it is now: calendar cells and consistency chart
    session       \* per session: st.session_state (logged_in, username), and as
                  \* history the username of its last successful authenticate

vars == <<users, logs, pc, call, ret, leader_data, last, race, view, session>>

----------------------------------------------------------------------------
(* Bounds of the model *)

\* rows the Users worksheet may hold before no further register call is started
MaxUsers == 3

\* browser sessions running the script concurrently
Sessions == {1, 2}

\* what is typed into the "User" / "New User" boxes
Usernames == { <<"a","l","i">>, <<"A","l","i">>, <<"7">>, <<"0","7">> }

\* what is typed into the "Pass" / "New Pass" boxes
Passwords == {"pw1", "pw2"}

\* what the date input yields through strftime("%Y-%m-%d") (l.253)
Dates == {"2024-02-28", "2024-03-01"}

\* datetime.now() (l.141), as year, month and day
Todays == { [year |-> 2024, month |-> 2, day |-> 10],
            [year |-> 2024, month |-> 3, day |-> 31] }

\* the days on which the page is run in the one-call-at-a-time specification
ViewTodays == { [year |-> 2024, month |-> 2, day |-> 10] }

\* data rows the Logs sheet may hold: an upsert that could take it beyond is not
\* started
MaxRows == 3

\* data rows the Logs sheet may hold in the specification of the application: a
\* press that could take it beyond is not made
MaxPageRows == 2

\* the date and the logs of the two-session specifications of the log store
RaceDates == {"2024-03-01"}

\* no call has returned yet
NoCall == [op |-> "none", username |-> <<>>, password |-> "", ok |-> FALSE]

----------------------------------------------------------------------------
(* gspread's reading of a cell: get_all_records() numericises every value  *)
(* (numericise_ignore is not passed), so a cell whose text is an integer   *)
(* literal comes back as a Python int, any other text as the str itself.   *)
(* A Python int is written here as <<"#int">> followed by its canonical    *)
(* decimal digits: int 7 differs from the str "7", and "07" and "7" read   *)
(* as the same int.  (Signs, blanks and float literals are outside the     *)
(* alphabet of Usernames.)                                                 *)

IsDigit(c) == c \in {"0","1","2","3","4","5","6","7","8","9"}

IsIntLiteral(s) == Len(s) > 0 /\ \A i \in 1..Len(s) : IsDigit(s[i])

RECURSIVE StripZeros(_)
StripZeros(s) == IF Len(s) > 1 /\ s[1] = "0" THEN StripZeros(Tail(s)) ELSE s

Numericise(s) == IF IsIntLiteral(s) THEN <<"#int">> \o StripZeros(s) ELSE s

\* Python's str() of a value read from the sheet
PyStr(v) == IF Len(v) > 0 /\ v[1] = "#int" THEN Tail(v) ELSE v

\* the names gspread reads back as typed: only these can pass authenticate
\* (l.57) and so become st.session_state.username (l.219-221)
LoginNames == {u \in Usernames : Numericise(u) = u}

----------------------------------------------------------------------------
(* USER MANAGEMENT *)

\* sha256(...).hexdigest(): one digest per password, never an integer literal
hash_password(p) == <<"sha256", p>>

\* ws.get_all_records() of the Users sheet
users_records(U) ==
    [i \in 1..Len(U) |-> [Username |-> Numericise(U[i][1]),
                          Password |-> Numericise(U[i][2])]]

\* {r['Username']: str(r['Password']) for r in records}: a later row wins
get_all_users(U) ==
    LET recs == users_records(U)
        keys == {recs[i].Username : i \in 1..Len(recs)}
        lastRow(k) == CHOOSE i \in 1..Len(recs) :
                          /\ recs[i].Username = k
                          /\ \A j \in 1..Len(recs) : recs[j].Username = k => j <= i
    IN  [k \in keys |-> PyStr(recs[lastRow(k)].Password)]

\* ws.append_row(values): the row goes after the last row of the sheet
append_row(rows, values) == Append(rows, values)

\* register_user, run without interruption: the returned value and the sheet
register_user(U, username, password) ==
    IF username \in DOMAIN get_all_users(U)
    THEN [ok |-> FALSE, users |-> U]
    ELSE [ok |-> TRUE, users |-> append_row(U, <<username, hash_password(password)>>)]

authenticate(U, username, password) ==
    LET d == get_all_users(U)
    IN  username \in DOMAIN d /\ d[username] = hash_password(password)

----------------------------------------------------------------------------
(* TEMPLATES (l.13-18) and the logs the page can write *)

TEMPLATES ==
    [t \in {"Anterior A", "Anterior B", "Posterior A", "Posterior B"} |->
       CASE t = "Anterior A" ->
              <<"Incline Chest Press (DB)", "Butterfly", "Lateral Raises (Cable)",
                "Overhead Extension", "Rope Pushdown", "Hack Squat", "Leg Extension",
                "Crunches">>
         [] t = "Anterior B" ->
              <<"Flat Chest Press", "Incline Chest Press (Mach)", "Lateral Raises (Cable)",
                "Overhead Extension", "Rope Pushdown", "Hack Squat", "Leg Extension",
                "Crunches">>
         [] t = "Posterior A" ->
              <<"Lat Pulldown", "Seated Row", "T-Bar Row", "Preacher Curl", "Hammer Curl",
                "Wrist Curl", "Back Delts", "RDL", "Leg Curls">>
         [] t = "Posterior B" ->
              <<"Lat Pulldown", "Seated Row", "T-Bar Row", "Incline Bi Curl", "Hammer Curl",
                "Reverse Curls", "Back Delts", "RDL", "Leg Curls">>]

DefaultSets == 3
DefaultReps == 10
DefaultWeight == 10

\* l.266: one entry per name of the template, with the defaults
apply_template(split) ==
    [i \in 1..Len(TEMPLATES[split]) |->
        [name |-> TEMPLATES[split][i], sets |-> DefaultSets, reps |-> DefaultReps,
         weight |-> DefaultWeight]]

\* one result of the data editor (l.277): the first exercise with one more set
edited(exs) == [exs EXCEPT ![1].sets = @ + 1]

\* the (log_type, exercises) pairs main passes to save_log_to_sheet:
\* Mark Rest (l.259), a template button (l.267), Save of an edited log (l.279)
LogInputs ==
    { <<"Rest", <<>>>>,
      <<"Anterior A", apply_template("Anterior A")>>,
      <<"Anterior A", edited(apply_template("Anterior A"))>> }

RaceInputs == { <<"Rest", <<>>>>, <<"Anterior A", apply_template("Anterior A")>> }

\* the buttons of the edit-log part of the page (l.258, 265, 271, 278, 281) that
\* the sessions press
Buttons == {"Mark Rest", "Anterior A", "Save", "Delete"}

\* what st.data_editor returns (l.277): the table as shown, or with the sets of
\* its first exercise typed over
EditedSets == 4

data_editor(exercises, typed) ==
    IF typed THEN [exercises EXCEPT ![1].sets = EditedSets] ELSE exercises

----------------------------------------------------------------------------
(* HISTORY MANAGEMENT *)

\* json.dumps / json.loads of a list of {name, sets, reps, weight}: the text of
\* the Data cell stands for exactly the list it was dumped from
json_dumps(exercises) == [json |-> exercises]
json_loads(data) == data.json

\* the data rows of L with this key
KeyRows(L, u, d) == {k \in 1..Len(L) : L[k][1] = u /\ L[k][2] = d}

\* row_to_delete = None
NoRow == 0

\* enumerate(all_values[1:], start=2): the sheet row of the first data row
FirstDataRow == 2

\* the loop of l.102-105 and l.119-120 over ws.get_all_values(): the sheet row of
\* the first data row with this username and date, NoRow when there is none
find_row(all_values, username, date_str) ==
    LET hits == {k \in 1..Len(all_values) :
                    all_values[k][1] = username /\ all_values[k][2] = date_str}
    IN  IF hits = {} THEN NoRow
        ELSE (CHOOSE k \in hits : \A h \in hits : k <= h) + FirstDataRow - 1

\* ws.delete_rows(i): sheet row i is removed and the rows below move up; a row
\* below the last data row is an empty row of the grid
delete_rows(rows, i) ==
    LET k == i - (FirstDataRow - 1)
    IN  IF k \in 1..Len(rows)
        THEN [j \in 1..(Len(rows) - 1) |-> IF j < k THEN rows[j] ELSE rows[j + 1]]
        ELSE rows

\* save_log_to_sheet with the delete of l.107-108 left out
save_log_to_sheet_append_only(L, username, date_str, log_type, exercises) ==
    append_row(L, <<username, date_str, log_type, json_dumps(exercises)>>)

\* save_log_to_sheet run without interruption (l.87-112)
save_log_to_sheet(L, username, date_str, log_type, exercises) ==
    LET row_to_delete == find_row(L, username, date_str)
        kept == IF row_to_delete # NoRow THEN delete_rows(L, row_to_delete) ELSE L
    IN  append_row(kept, <<username, date_str, log_type, json_dumps(exercises)>>)

\* delete_log_from_sheet run without interruption (l.114-122)
delete_log_from_sheet(L, username, date_str) ==
    LET i == find_row(L, username, date_str)
    IN  IF i # NoRow THEN delete_rows(L, i) ELSE L

----------------------------------------------------------------------------
(* LEADERBOARD LOGIC *)

\* ws.get_all_records() of the Logs sheet (l.62-66)
load_history_from_sheet(L) ==
    [k \in 1..Len(L) |-> [Username |-> Numericise(L[k][1]), Date |-> L[k][2],
                          Type |-> L[k][3], Data |-> L[k][4]]]

\* user_counts[u] = user_counts.get(u, 0) + 1 on a dict kept in insertion order,
\* written as the sequence of its items
dict_incr(items, u) ==
    IF \E i \in 1..Len(items) : items[i].User = u
    THEN [i \in 1..Len(items) |->
            IF items[i].User = u THEN [items[i] EXCEPT !.Days = @ + 1] ELSE items[i]]
    ELSE Append(items, [User |-> u, Days |-> 1])

\* the loop body without the test of l.132
count_row_any_type(items, row) == dict_incr(items, row.Username)

\* the body of the loop of l.129-133 for one row
count_row(items, row) ==
    IF row.Type # "Rest" THEN dict_incr(items, row.Username) ELSE items

RECURSIVE count_rows(_, _)
count_rows(items, rows) ==
    IF rows = <<>> THEN items
    ELSE count_rows(count_row(items, Head(rows)), Tail(rows))

\* a descending sort that puts an item before the items of equal Days (what
\* sorted(...)[::-1] would give)
insert_desc_before_equal(sorted, x) ==
    LET n == Cardinality({i \in 1..Len(sorted) : sorted[i].Days > x.Days})
    IN  SubSeq(sorted, 1, n) \o <<x>> \o SubSeq(sorted, n + 1, Len(sorted))

\* list.insert for sorted(..., reverse=True): Python's sort is stable, also with
\* reverse=True, so an item goes after every item whose Days is greater or equal
insert_desc(sorted, x) ==
    LET n == Cardinality({i \in 1..Len(sorted) : sorted[i].Days >= x.Days})
    IN  SubSeq(sorted, 1, n) \o <<x>> \o SubSeq(sorted, n + 1, Len(sorted))

RECURSIVE sorted_by_days(_, _)
sorted_by_days(done, todo) ==
    IF todo = <<>> THEN done
    ELSE sorted_by_days(insert_desc(done, Head(todo)), Tail(todo))

get_leaderboard_data(L) ==
    sorted_by_days(<<>>, count_rows(<<>>, load_history_from_sheet(L)))

----------------------------------------------------------------------------
(* DATES.  A date string is compared, sorted, parsed and formatted by its   *)
(* characters: DateChars gives the characters of the date strings of the    *)
(* model, strptime reads a datetime off them and strftime writes the ten    *)
(* characters of "%Y-%m-%d".  A datetime is a record of year, month, day    *)
(* (the time of day plays no part in l.140-189 beyond datetime.now()).      *)

DateChars ==
    [s \in Dates |->
       CASE s = "2024-02-28" -> <<"2","0","2","4","-","0","2","-","2","8">>
         [] s = "2024-03-01" -> <<"2","0","2","4","-","0","3","-","0","1">>]

DigitChars == <<"0","1","2","3","4","5","6","7","8","9">>

DigitValue(c) == (CHOOSE i \in 1..10 : DigitChars[i] = c) - 1

\* int() of a run of digits
RECURSIVE ParseInt(_)
ParseInt(cs) ==
    IF cs = <<>> THEN 0
    ELSE 10 * ParseInt(SubSeq(cs, 1, Len(cs) - 1)) + DigitValue(cs[Len(cs)])

\* datetime.strptime(s, "%Y-%m-%d") on the characters of s
strptime(cs) ==
    [year |-> ParseInt(SubSeq(cs, 1, 4)), month |-> ParseInt(SubSeq(cs, 6, 7)),
     day |-> ParseInt(SubSeq(cs, 9, 10))]

\* a number written with at least two digits, as %m and %d write it
TwoDigits(n) == <<DigitChars[(n \div 10) + 1], DigitChars[(n % 10) + 1]>>

\* d.strftime("%Y-%m-%d")
strftime(dt) ==
    TwoDigits(dt.year \div 100) \o TwoDigits(dt.year % 100) \o <<"-">>
        \o TwoDigits(dt.month) \o <<"-">> \o TwoDigits(dt.day)

IsLeap(y) == y % 4 = 0 /\ (y % 100 # 0 \/ y % 400 = 0)

DaysInMonth(y, m) ==
    IF m = 2 THEN (IF IsLeap(y) THEN 29 ELSE 28)
    ELSE IF m \in {4, 6, 9, 11} THEN 30 ELSE 31

RECURSIVE DaysBeforeMonth(_, _)
DaysBeforeMonth(y, m) ==
    IF m = 1 THEN 0 ELSE DaysBeforeMonth(y, m - 1) + DaysInMonth(y, m - 1)

\* date.toordinal(): the number of the day, day 1 being 0001-01-01
toordinal(dt) ==
    LET y == dt.year - 1
    IN  y * 365 + (y \div 4) - (y \div 100) + (y \div 400)
            + DaysBeforeMonth(dt.year, dt.month) + dt.day

\* dt + timedelta(days=1) and dt - timedelta(days=1)
next_day(dt) ==
    IF dt.day < DaysInMonth(dt.year, dt.month) THEN [dt EXCEPT !.day = @ + 1]
    ELSE IF dt.month < 12 THEN [dt EXCEPT !.month = @ + 1, !.day = 1]
    ELSE [year |-> dt.year + 1, month |-> 1, day |-> 1]

prev_day(dt) ==
    IF dt.day > 1 THEN [dt EXCEPT !.day = @ - 1]
    ELSE IF dt.month > 1
         THEN [dt EXCEPT !.month = @ - 1, !.day = DaysInMonth(dt.year, dt.month - 1)]
         ELSE [year |-> dt.year - 1, month |-> 12, day |-> 31]

\* a <= b for two datetimes: by year, then month, then day
date_le(a, b) ==
    \/ a.year < b.year
    \/ a.year = b.year /\ a.month < b.month
    \/ a.year = b.year /\ a.month = b.month /\ a.day <= b.day

RECURSIVE plus_days(_, _)
plus_days(dt, n) == IF n = 0 THEN dt ELSE plus_days(next_day(dt), n - 1)

\* the order of the characters of a date string ('-' sorts before the digits)
CharOrd(c) == IF c = "-" THEN 0 ELSE DigitValue(c) + 1

\* a < b for two str, as sorted() compares them
RECURSIVE StrLess(_, _)
StrLess(a, b) ==
    IF b = <<>> THEN FALSE
    ELSE IF a = <<>> THEN TRUE
    ELSE IF a[1] # b[1] THEN CharOrd(a[1]) < CharOrd(b[1])
    ELSE StrLess(Tail(a), Tail(b))

----------------------------------------------------------------------------
(* HISTORY OF ONE USER AND ITS VIEWS *)

\* get_user_history (l.68-85): a dict from date string to {type, exercises}; a
\* later row of the same date replaces the entry of an earlier one.  The Data
\* written by save_log_to_sheet always parses, so no row is skipped.
get_user_history(L, username) ==
    LET all_logs == load_history_from_sheet(L)
        mine == {k \in 1..Len(all_logs) : all_logs[k].Username = username}
        lastRow(d) == CHOOSE k \in mine :
                          /\ all_logs[k].Date = d
                          /\ \A j \in mine : all_logs[j].Date = d => j <= k
    IN  [d \in {all_logs[k].Date : k \in mine} |->
            [type |-> all_logs[lastRow(d)].Type,
             exercises |-> json_loads(all_logs[lastRow(d)].Data)]]

\* history.get(d_s): the entry whose key has the characters d_s, None otherwise
None == [none |-> TRUE]

dict_get(history, d_s) ==
    IF \E k \in DOMAIN history : DateChars[k] = d_s
    THEN history[CHOOSE k \in DOMAIN history : DateChars[k] = d_s]
    ELSE None

\* truth value of what history.get returns: None and an empty dict are false,
\* and an entry always has its two keys
truthy(day_log) == day_log # None /\ DOMAIN day_log # {}

\* day_log["type"].replace("Anterior", "Ant").replace("Posterior", "Post")
abbreviate(type) ==
    CASE type = "Anterior A" -> "Ant A"
      [] type = "Anterior B" -> "Ant B"
      [] type = "Posterior A" -> "Post A"
      [] type = "Posterior B" -> "Post B"
      [] OTHER -> type

\* the body of the loop of plot_calendar (l.150-159) for the day d; "zzz" is
\* the sleeping sign of l.156
calendar_cell(history, d) ==
    LET day_log == dict_get(history, strftime(d))
    IN  IF truthy(day_log)
        THEN IF day_log.type = "Rest"
             THEN [date |-> d, status |-> "Rest", label |-> "zzz"]
             ELSE [date |-> d, status |-> "Workout", label |-> abbreviate(day_log.type)]
        ELSE [date |-> d, status |-> "Missed", label |-> ""]

\* for d in date_range (l.146-159): pd.date_range(start, end) holds the days
\* from start to end, both included
RECURSIVE calendar_cells(_, _, _)
calendar_cells(history, d, end) ==
    IF ~date_le(d, end) THEN <<>>
    ELSE <<calendar_cell(history, d)>> \o calendar_cells(history, next_day(d), end)

\* plot_calendar (l.140-159): the cells of the month of today
plot_calendar(history, today) ==
    LET start_of_month == [today EXCEPT !.day = 1]
        next_month == [plus_days([start_of_month EXCEPT !.day = 28], 4) EXCEPT !.day = 1]
    IN  calendar_cells(history, start_of_month, prev_day(next_month))

\* the loop body without the else of l.183-184
count_day_logged_only(counts, history, current) ==
    LET l == dict_get(history, strftime(current))
    IN  IF truthy(l)
        THEN IF l.type = "Rest" THEN [counts EXCEPT !.Rest = @ + 1]
             ELSE [counts EXCEPT !.Workouts = @ + 1]
        ELSE counts

\* the body of the loop of plot_consistency (l.178-184) for the day current
count_day(counts, history, current) ==
    LET l == dict_get(history, strftime(current))
    IN  IF truthy(l)
        THEN IF l.type = "Rest" THEN [counts EXCEPT !.Rest = @ + 1]
             ELSE [counts EXCEPT !.Workouts = @ + 1]
        ELSE [counts EXCEPT !.Missed = @ + 1]

\* while current <= end_date (l.177-185)
RECURSIVE count_days(_, _, _, _)
count_days(counts, history, current, end_date) ==
    IF ~date_le(current, end_date) THEN counts
    ELSE count_days(count_day(counts, history, current), history,
                    next_day(current), end_date)

\* st.info("Start working out to see your chart!"): no chart and no caption
NoChart == [chart |-> FALSE]

\* plot_consistency without the early return of l.168-170: an empty chart
plot_consistency_without_return(history) ==
    [chart |-> TRUE, total_days |-> 0,
     counts |-> [Workouts |-> 0, Rest |-> 0, Missed |-> 0]]

\* plot_consistency (l.167-189): the values of the chart and the total of the
\* caption, NoChart for an empty history
plot_consistency(history) ==
    IF DOMAIN history = {} THEN NoChart
    ELSE LET keys == DOMAIN history
             first == CHOOSE k \in keys :
                          \A j \in keys : ~StrLess(DateChars[j], DateChars[k])
             final == CHOOSE k \in keys :
                          \A j \in keys : ~StrLess(DateChars[k], DateChars[j])
             start_date == strptime(DateChars[first])
             end_date == strptime(DateChars[final])
             counts == count_days([Workouts |-> 0, Rest |-> 0, Missed |-> 0],
                                  history, start_date, end_date)
         IN  [chart |-> TRUE,
              total_days |-> toordinal(end_date) - toordinal(start_date) + 1,
              counts |-> counts,
              start_date |-> start_date, end_date |-> end_date]

----------------------------------------------------------------------------
\* the keys of the Logs sheet
Keys == LoginNames \X Dates

NoLog == [log |-> <<"NoLog", <<>>>>, replaced |-> FALSE]

NotLoaded == [loaded |-> FALSE, rows |-> <<>>]

\* the arguments and locals of a session that is in no call
NoArgs == [username |-> <<>>, password |-> "", date_str |-> "", log |-> NoLog.log,
           all_values |-> <<>>, row |-> NoRow, button |-> ""]

NoRace == [on |-> FALSE, base |-> <<>>, ops |-> <<>>]

NotViewed == [loaded |-> FALSE]

\* l.195-197: a new session is not logged in and has an empty username
NewSession == [logged_in |-> FALSE, username |-> <<>>, auth |-> <<>>]

(* THE PAGE (l.192-286).  A press of a button starts a run of the script in *)
(* the session of the browser; the button returns True in that run, and     *)
(* only where the run reaches it.                                           *)

\* a page that shows the logged-in part whatever the session state
logged_in_page_always(state) == TRUE

\* if not st.session_state.logged_in: ... else: ... (l.199, 234)
logged_in_page(state) == state.logged_in

NoAction == [op |-> "none", log |-> NoLog.log]

\* the edit-log part with a Mark Rest that saves the exercises of a template
edit_log_rest_with_template(log, button, typed) ==
    IF ~truthy(log)
    THEN IF button = "Mark Rest"
         THEN [op |-> "save", log |-> <<"Rest", apply_template("Anterior A")>>]
         ELSE IF button \in DOMAIN TEMPLATES
              THEN [op |-> "save", log |-> <<button, apply_template(button)>>]
              ELSE NoAction
    ELSE IF log.type = "Rest"
         THEN IF button = "Delete" THEN [op |-> "delete", log |-> NoLog.log] ELSE NoAction
         ELSE IF button = "Save"
              THEN [op |-> "save", log |-> <<log.type, data_editor(log.exercises, typed)>>]
              ELSE IF button = "Delete" THEN [op |-> "delete", log |-> NoLog.log]
                   ELSE NoAction

\* the edit-log part of the page (l.255-283): the call that the pressed button
\* makes given the log of the selected date in the history this run has loaded.
\* The two Delete buttons (l.271, 281) have one label and no key: they are one
\* widget, pressed in whichever branch the run takes.
edit_log(log, button, typed) ==
    IF ~truthy(log)
    THEN IF button = "Mark Rest"
         THEN [op |-> "save", log |-> <<"Rest", <<>>>>]
         ELSE IF button \in DOMAIN TEMPLATES
              THEN [op |-> "save", log |-> <<button, apply_template(button)>>]
              ELSE NoAction
    ELSE IF log.type = "Rest"
         THEN IF button = "Delete" THEN [op |-> "delete", log |-> NoLog.log] ELSE NoAction
         ELSE IF button = "Save"
              THEN [op |-> "save", log |-> <<log.type, data_editor(log.exercises, typed)>>]
              ELSE IF button = "Delete" THEN [op |-> "delete", log |-> NoLog.log]
                   ELSE NoAction

----------------------------------------------------------------------------
(* The state after construction: empty worksheets, new sessions *)

Init ==
    /\ users = <<>>
    /\ logs = <<>>
    /\ pc = [s \in Sessions |-> "idle"]
    /\ call = [s \in Sessions |-> NoArgs]
    /\ ret = NoCall
    /\ leader_data = NotLoaded
    /\ last = [k \in Keys |-> NoLog]
    /\ race = NoRace
    /\ view = NotViewed
    /\ session = [s \in Sessions |-> NewSession]

(* Log store, one call at a time.  The usernames are those of logged-in     *)
(* sessions (l.235).  The leaderboard is a local of the page run that       *)
(* computed it: the next button press starts another run.                   *)

Upsert(u, d, in) ==
    /\ Len(logs) < MaxRows \/ find_row(logs, u, d) # NoRow
    /\ logs' = save_log_to_sheet(logs, u, d, in[1], in[2])
    /\ last' = [last EXCEPT ![<<u, d>>] =
                   [log |-> in, replaced |-> find_row(logs, u, d) # NoRow]]
    /\ leader_data' = NotLoaded
    /\ view' = NotViewed
    /\ UNCHANGED <<users, pc, call, ret, race, session>>

Delete(u, d) ==
    /\ logs' = delete_log_from_sheet(logs, u, d)
    /\ last' = [last EXCEPT ![<<u, d>>] = NoLog]
    /\ leader_data' = NotLoaded
    /\ view' = NotViewed
    /\ UNCHANGED <<users, pc, call, ret, race, session>>

Leaderboard ==
    /\ leader_data' = [loaded |-> TRUE, rows |-> get_leaderboard_data(logs)]
    /\ UNCHANGED <<users, logs, pc, call, ret, last, race, view, session>>

NextLogs ==
    \/ \E u \in LoginNames, d \in Dates, in \in LogInputs : Upsert(u, d, in)
    \/ \E u \in LoginNames, d \in Dates : Delete(u, d)
    \/ Leaderboard

SpecLogs == Init /\ [][NextLogs]_vars

(* Log store and the page of a logged-in user, one call at a time.  A page  *)
(* run on which no button is pressed loads the history of its user (l.237)  *)
(* and draws the calendar of this month (l.246) and the consistency chart   *)
(* (l.286).                                                                 *)

PageView(u, today) ==
    /\ \E history \in {get_user_history(logs, u)} :
           view' = [loaded |-> TRUE, username |-> u, today |-> today,
                    calendar |-> plot_calendar(history, today),
                    consistency |-> plot_consistency(history)]
    /\ UNCHANGED <<users, logs, pc, call, ret, leader_data, last, race, session>>

NextView ==
    \/ \E u \in LoginNames, d \in Dates, in \in RaceInputs : Upsert(u, d, in)
    \/ \E u \in LoginNames, d \in Dates : Delete(u, d)
    \/ \E u \in LoginNames, today \in ViewTodays : PageView(u, today)

SpecView == Init /\ [][NextView]_vars

(* Credential store, one call at a time *)

Register(u, p) ==
    /\ Len(users) < MaxUsers
    /\ users' = register_user(users, u, p).users
    /\ ret' = [op |-> "register", username |-> u, password |-> p,
               ok |-> register_user(users, u, p).ok]
    /\ UNCHANGED <<logs, pc, call, leader_data, last, race, view, session>>

Authenticate(u, p) ==
    /\ ret' = [op |-> "authenticate", username |-> u, password |-> p,
               ok |-> authenticate(users, u, p)]
    /\ UNCHANGED <<users, logs, pc, call, leader_data, last, race, view, session>>

NextUsers ==
    \E u \in Usernames, p \in Passwords :
        \/ Register(u, p)
        \/ Authenticate(u, p)

SpecUsers == Init /\ [][NextUsers]_vars

(* Credential store, two sessions: register_user is a read request         *)
(* (get_all_users, l.46) followed, when the name is free, by a write       *)
(* request (append_row, l.52).  The names are those that one session alone *)
(* cannot register twice, so that a second row can only come from the      *)
(* interleaving.                                                           *)

PendingRegisters == Cardinality({s \in Sessions : pc[s] = "reg_append"})

RegRead(s, u, p) ==
    /\ pc[s] = "idle"
    /\ Len(users) + PendingRegisters < MaxUsers
    /\ IF u \in DOMAIN get_all_users(users)
       THEN /\ ret' = [op |-> "register", username |-> u, password |-> p, ok |-> FALSE]
            /\ UNCHANGED <<pc, call>>
       ELSE /\ pc' = [pc EXCEPT ![s] = "reg_append"]
            /\ call' = [call EXCEPT ![s] = [NoArgs EXCEPT !.username = u, !.password = p]]
            /\ UNCHANGED ret
    /\ UNCHANGED <<users, logs, leader_data, last, race, view, session>>

RegAppend(s) ==
    /\ pc[s] = "reg_append"
    /\ users' = append_row(users, <<call[s].username, hash_password(call[s].password)>>)
    /\ ret' = [op |-> "register", username |-> call[s].username,
               password |-> call[s].password, ok |-> TRUE]
    /\ pc' = [pc EXCEPT ![s] = "idle"]
    /\ call' = [call EXCEPT ![s] = NoArgs]
    /\ UNCHANGED <<logs, leader_data, last, race, view, session>>

NextUsersRace ==
    \E s \in Sessions :
        \/ \E u \in LoginNames, p \in Passwords : RegRead(s, u, p)
        \/ RegAppend(s)

SpecUsersRace == Init /\ [][NextUsersRace]_vars

----------------------------------------------------------------------------
(* Claims about the credential store *)

\* a row of the Users sheet carries exactly this username text
HasUserRow(U, u) == \E i \in 1..Len(U) : U[i][1] = u

\* C6: register on a username that already has a row in Users returns failure
\* and leaves Users unchanged; on a username with no row it appends exactly the
\* row (username, hash(password)) and returns success (exact, case-sensitive match).
C6_RegisterContract ==
    [][\A u \in Usernames, p \in Passwords :
          Register(u, p) =>
              IF HasUserRow(users, u)
              THEN ~ret'.ok /\ users' = users
              ELSE ret'.ok /\ users' = Append(users, <<u, hash_password(p)>>)]_vars

\* C7: authenticate(u, p) returns true if and only if u has a row in Users whose
\* stored hash equals hash(p).
C7_AuthenticateIff ==
    ret.op = "authenticate" =>
        (ret.ok <=> \E i \in 1..Len(users) :
                        /\ users[i][1] = ret.username
                        /\ users[i][2] = hash_password(ret.password))

\* C8: the Users sheet never holds two rows with the same username, also when
\* two sessions register concurrently.
C8_UniqueUsernames ==
    \A i, j \in 1..Len(users) : users[i][1] = users[j][1] => i = j

----------------------------------------------------------------------------
(* Claims about the log store, one call at a time *)

\* C1: from an empty Logs sheet, after any sequence of upserts run one after
\* another, the sheet holds exactly one row for every key upserted, and the row
\* carries the type and the exercises of the last upsert for the key.
C1_LastUpsertWins ==
    \A key \in Keys :
        last[key] # NoLog =>
            /\ Cardinality(KeyRows(logs, key[1], key[2])) = 1
            /\ \A k \in KeyRows(logs, key[1], key[2]) :
                   /\ logs[k][3] = last[key].log[1]
                   /\ json_loads(logs[k][4]) = last[key].log[2]

\* a workout log was replaced by a rest day, beside the row of another key
C1_Witness ==
    \E key \in Keys :
        /\ last[key].replaced
        /\ last[key].log = <<"Rest", <<>>>>
        /\ Len(logs) > 1

\* the data rows of the sheet written by this user, and those that are workouts
UserRows(u) == {k \in 1..Len(logs) : logs[k][1] = u}
WorkoutRows(u) == {k \in UserRows(u) : logs[k][3] # "Rest"}

HasEntry(u) == \E i \in 1..Len(leader_data.rows) : leader_data.rows[i].User = u

\* C4: the leaderboard has an entry for every user with at least one row in Logs;
\* a user whose logs are all "Rest" appears with a count of 0.
C4_EveryUserListed ==
    leader_data.loaded =>
        \A u \in Usernames :
            UserRows(u) # {} =>
                \E i \in 1..Len(leader_data.rows) :
                    /\ leader_data.rows[i].User = u
                    /\ leader_data.rows[i].Days = Cardinality(WorkoutRows(u))

\* C4, amended: the leaderboard has an entry for exactly the users with at least
\* one row whose type is not "Rest"; a user whose logs are all "Rest" is omitted.
C4_WorkoutUsersListed ==
    leader_data.loaded =>
        /\ \A u \in Usernames : HasEntry(u) <=> WorkoutRows(u) # {}
        /\ \A i \in 1..Len(leader_data.rows) :
               /\ leader_data.rows[i].User \in Usernames
               /\ leader_data.rows[i].Days > 0

\* a leaderboard computed while one user has only rest days and another a workout
C4_Witness ==
    /\ leader_data.loaded
    /\ leader_data.rows # <<>>
    /\ \E u \in Usernames : UserRows(u) # {} /\ WorkoutRows(u) = {}

FirstOf(S) == CHOOSE k \in S : \A h \in S : k <= h

\* counts and descending order of the leaderboard
CountsAndOrder ==
    /\ \A i \in 1..Len(leader_data.rows) :
           leader_data.rows[i].Days = Cardinality(WorkoutRows(leader_data.rows[i].User))
    /\ \A i, j \in 1..Len(leader_data.rows) :
           i < j => leader_data.rows[i].Days >= leader_data.rows[j].Days

\* C5: every entry's count is the number of the user's rows whose type is not
\* "Rest", the entries are in descending order of count, and entries with equal
\* counts are in the order in which their users are first met in the scan.
C5_TiesByFirstRow ==
    leader_data.loaded =>
        /\ CountsAndOrder
        /\ \A i, j \in 1..Len(leader_data.rows) :
               (i < j /\ leader_data.rows[i].Days = leader_data.rows[j].Days) =>
                   FirstOf(UserRows(leader_data.rows[i].User))
                       < FirstOf(UserRows(leader_data.rows[j].User))

\* C5, amended: as C5, with entries of equal counts in the order in which their
\* users are first met with a row whose type is not "Rest".
C5_TiesByFirstWorkoutRow ==
    leader_data.loaded =>
        /\ CountsAndOrder
        /\ \A i, j \in 1..Len(leader_data.rows) :
               (i < j /\ leader_data.rows[i].Days = leader_data.rows[j].Days) =>
                   FirstOf(WorkoutRows(leader_data.rows[i].User))
                       < FirstOf(WorkoutRows(leader_data.rows[j].User))

\* a leaderboard in which two users have equal counts
C5_Witness ==
    /\ leader_data.loaded
    /\ \E i, j \in 1..Len(leader_data.rows) :
           i < j /\ leader_data.rows[i].Days = leader_data.rows[j].Days

(* Log store, two sessions of logged-in users.  save_log_to_sheet is a read *)
(* request (get_all_values, l.98; the cell returned by find, l.92, is not   *)
(* used), a delete request when a row was found (l.108) and an append       *)
(* request (l.112).  delete_log_from_sheet is a read request (l.117) and,   *)
(* when a row was found, a delete request (l.121).                          *)

AllIdle == \A s \in Sessions : pc[s] = "idle"

PendingAppends ==
    Cardinality({s \in Sessions : pc[s] \in {"save_read", "save_delete", "save_append"}})

\* history, when it is kept: a call begins.  With no call in progress it opens a
\* new group of overlapping calls; a second call is recorded when the two are an
\* upsert and a delete for one key, and anything else ends the record
Begin(op) ==
    IF ~race.on THEN race
    ELSE IF AllIdle
         THEN [on |-> TRUE, base |-> logs, ops |-> <<op>>]
         ELSE IF /\ Len(race.ops) = 1
                 /\ race.ops[1].kind # op.kind
                 /\ race.ops[1].username = op.username
                 /\ race.ops[1].date_str = op.date_str
              THEN [race EXCEPT !.ops = Append(@, op)]
              ELSE [on |-> TRUE, base |-> <<>>, ops |-> <<>>]

SaveRead(s, u, d, in) ==
    /\ pc[s] = "idle"
    /\ Len(logs) + PendingAppends < MaxRows
    /\ call' = [call EXCEPT ![s] = [NoArgs EXCEPT !.username = u, !.date_str = d,
                                       !.log = in, !.all_values = logs,
                                       !.row = find_row(logs, u, d)]]
    /\ pc' = [pc EXCEPT ![s] = IF find_row(logs, u, d) # NoRow
                               THEN "save_delete" ELSE "save_append"]
    /\ race' = Begin([kind |-> "upsert", username |-> u, date_str |-> d, log |-> in])
    /\ UNCHANGED <<users, logs, ret, leader_data, last, view, session>>

SaveDelete(s) ==
    /\ pc[s] = "save_delete"
    /\ logs' = delete_rows(logs, call[s].row)
    /\ pc' = [pc EXCEPT ![s] = "save_append"]
    /\ view' = NotViewed
    /\ UNCHANGED <<users, call, ret, leader_data, last, race, session>>

SaveAppend(s) ==
    /\ pc[s] = "save_append"
    /\ logs' = append_row(logs, <<call[s].username, call[s].date_str, call[s].log[1],
                                  json_dumps(call[s].log[2])>>)
    /\ pc' = [pc EXCEPT ![s] = "idle"]
    /\ call' = [call EXCEPT ![s] = NoArgs]
    /\ view' = NotViewed
    /\ UNCHANGED <<users, ret, leader_data, last, race, session>>

DelRead(s, u, d) ==
    /\ pc[s] = "idle"
    /\ IF find_row(logs, u, d) # NoRow
       THEN /\ call' = [call EXCEPT ![s] = [NoArgs EXCEPT !.username = u, !.date_str = d,
                                               !.all_values = logs,
                                               !.row = find_row(logs, u, d)]]
            /\ pc' = [pc EXCEPT ![s] = "del_delete"]
       ELSE UNCHANGED <<pc, call>>
    /\ race' = Begin([kind |-> "delete", username |-> u, date_str |-> d,
                      log |-> NoLog.log])
    /\ UNCHANGED <<users, logs, ret, leader_data, last, view, session>>

DelDelete(s) ==
    /\ pc[s] = "del_delete"
    /\ logs' = delete_rows(logs, call[s].row)
    /\ pc' = [pc EXCEPT ![s] = "idle"]
    /\ call' = [call EXCEPT ![s] = NoArgs]
    /\ view' = NotViewed
    /\ UNCHANGED <<users, ret, leader_data, last, race, session>>

Next ==
    \E s \in Sessions :
        \/ \E u \in LoginNames, d \in RaceDates, in \in RaceInputs : SaveRead(s, u, d, in)
        \/ SaveDelete(s)
        \/ SaveAppend(s)
        \/ \E u \in LoginNames, d \in RaceDates : DelRead(s, u, d)
        \/ DelDelete(s)

Spec == Init /\ [][Next]_vars

(* The page of a logged-in user beside the upserts of two sessions *)

NextViewRace ==
    \/ \E s \in Sessions :
           \/ \E u \in LoginNames, d \in RaceDates, in \in RaceInputs : SaveRead(s, u, d, in)
           \/ SaveDelete(s)
           \/ SaveAppend(s)
    \/ \E u \in LoginNames, today \in Todays : PageView(u, today)

SpecViewRace == Init /\ [][NextViewRace]_vars

(* The upserts of one session when a request may fail.  gspread raises an   *)
(* APIError out of delete_rows or append_row; save_log_to_sheet catches     *)
(* nothing, so the call ends there and the run shows the error.  The failed *)
(* request is taken to have changed nothing.                                *)

SaveFails(s) ==
    /\ pc[s] \in {"save_delete", "save_append"}
    /\ pc' = [pc EXCEPT ![s] = "idle"]
    /\ call' = [call EXCEPT ![s] = NoArgs]
    /\ UNCHANGED <<users, logs, ret, leader_data, last, race, view, session>>

\* the one session that is active
Solo == CHOOSE s \in Sessions : \A r \in Sessions : s <= r

NextFault ==
    \/ \E u \in LoginNames, d \in Dates, in \in RaceInputs : SaveRead(Solo, u, d, in)
    \/ SaveDelete(Solo)
    \/ SaveAppend(Solo)
    \/ SaveFails(Solo)

SpecFault == Init /\ [][NextFault]_vars

(* The application, two sessions.  The runs of one session follow one       *)
(* another (a press while a run is under way stops that run only where it   *)
(* calls into streamlit, and none of the storage functions does between its *)
(* requests), so a session presses a button when its last run has ended.    *)
(* The login page calls authenticate and register_user, each taken here as  *)
(* one step; a run of the logged-in page loads the history (l.237) and then *)
(* issues the requests of the call its button makes, one request per step.  *)
(* What the runs draw (leaderboard, calendar, chart) is left as it is, and  *)
(* of the locals of the storage functions only row_to_delete is kept, the   *)
(* one they use after the read.  The names typed are those that can log in. *)

\* l.218-224: the Login button
Login(s, u, p) ==
    /\ pc[s] = "idle"
    /\ ~logged_in_page(session[s])
    /\ session' = IF authenticate(users, u, p)
                  THEN [session EXCEPT ![s] = [logged_in |-> TRUE, username |-> u,
                                               auth |-> u]]
                  ELSE session
    /\ UNCHANGED <<users, logs, pc, call, ret, leader_data, last, race, view>>

\* l.228-232: the Create Account button
SignUp(s, u, p) ==
    /\ pc[s] = "idle"
    /\ ~logged_in_page(session[s])
    /\ Len(users) < MaxUsers
    /\ users' = register_user(users, u, p).users
    /\ UNCHANGED <<logs, pc, call, ret, leader_data, last, race, view, session>>

\* l.242-244: the Logout button; the username stays in the session state
Logout(s) ==
    /\ pc[s] = "idle"
    /\ logged_in_page(session[s])
    /\ session' = [session EXCEPT ![s].logged_in = FALSE]
    /\ UNCHANGED <<users, logs, pc, call, ret, leader_data, last, race, view>>

\* l.235-283: a button of the edit-log part is pressed with the date d selected.
\* The run loads the history and, where its branch has the button, enters
\* save_log_to_sheet or delete_log_from_sheet
Press(s, button, d, typed) ==
    /\ pc[s] = "idle"
    /\ logged_in_page(session[s])
    /\ \E act \in {edit_log(dict_get(get_user_history(logs, session[s].username),
                                     DateChars[d]), button, typed)} :
          /\ act.op = "save" => Len(logs) + PendingAppends < MaxPageRows
          /\ pc' = [pc EXCEPT ![s] = CASE act.op = "save" -> "save_read"
                                       [] act.op = "delete" -> "del_read"
                                       [] OTHER -> "idle"]
          /\ call' = [call EXCEPT ![s] =
                         IF act.op = "none" THEN NoArgs
                         ELSE [NoArgs EXCEPT !.username = session[s].username,
                                             !.date_str = d, !.log = act.log,
                                             !.button = button]]
    /\ UNCHANGED <<users, logs, ret, leader_data, last, race, view, session>>

\* l.98-105 in a run of the page: get_all_values and the search for the row
RunSaveRead(s) ==
    /\ pc[s] = "save_read"
    /\ call' = [call EXCEPT ![s].row = find_row(logs, call[s].username, call[s].date_str)]
    /\ pc' = [pc EXCEPT ![s] =
                 IF find_row(logs, call[s].username, call[s].date_str) # NoRow
                 THEN "save_delete" ELSE "save_append"]
    /\ UNCHANGED <<users, logs, ret, leader_data, last, race, view, session>>

\* l.117-120 in a run of the page
RunDelRead(s) ==
    /\ pc[s] = "del_read"
    /\ IF find_row(logs, call[s].username, call[s].date_str) # NoRow
       THEN /\ call' = [call EXCEPT ![s].row = find_row(logs, call[s].username,
                                                        call[s].date_str)]
            /\ pc' = [pc EXCEPT ![s] = "del_delete"]
       ELSE /\ call' = [call EXCEPT ![s] = NoArgs]
            /\ pc' = [pc EXCEPT ![s] = "idle"]
    /\ UNCHANGED <<users, logs, ret, leader_data, last, race, view, session>>

NextApp ==
    \E s \in Sessions :
        \/ \E u \in LoginNames, p \in Passwords : Login(s, u, p)
        \/ \E u \in LoginNames, p \in Passwords : SignUp(s, u, p)
        \/ Logout(s)
        \/ \E button \in Buttons, d \in RaceDates, typed \in BOOLEAN :
               Press(s, button, d, typed)
        \/ RunSaveRead(s)
        \/ SaveDelete(s)
        \/ SaveAppend(s)
        \/ RunDelRead(s)
        \/ DelDelete(s)

SpecApp == Init /\ [][NextApp]_vars

\* the same, with the history of overlapping calls kept
InitRace ==
    /\ users = <<>>
    /\ logs = <<>>
    /\ pc = [s \in Sessions |-> "idle"]
    /\ call = [s \in Sessions |-> NoArgs]
    /\ ret = NoCall
    /\ leader_data = NotLoaded
    /\ last = [k \in Keys |-> NoLog]
    /\ race = [on |-> TRUE, base |-> <<>>, ops |-> <<>>]
    /\ view = NotViewed
    /\ session = [s \in Sessions |-> NewSession]

SpecRace == InitRace /\ [][Next]_vars

----------------------------------------------------------------------------
(* Claims about the log store, two sessions *)

\* C2: once the upserts of two sessions for one key have completed, whatever the
\* interleaving of their requests, Logs has no two rows with the same key.
C2_UniqueKeys ==
    AllIdle =>
        \A i, j \in 1..Len(logs) :
            (logs[i][1] = logs[j][1] /\ logs[i][2] = logs[j][2]) => i = j

\* a call run without interruption on the sheet L
Apply(L, op) ==
    IF op.kind = "upsert"
    THEN save_log_to_sheet(L, op.username, op.date_str, op.log[1], op.log[2])
    ELSE delete_log_from_sheet(L, op.username, op.date_str)

\* C3: an upsert and a delete for one key issued by two sessions are linearizable:
\* whatever the interleaving, the final sheet is the one produced by running the
\* two calls without interruption in one of the two orders.
C3_Linearizable ==
    ( /\ AllIdle
      /\ Len(race.ops) = 2
      /\ race.ops[1].kind # race.ops[2].kind
      /\ race.ops[1].username = race.ops[2].username
      /\ race.ops[1].date_str = race.ops[2].date_str )
    => logs \in { Apply(Apply(race.base, race.ops[1]), race.ops[2]),
                  Apply(Apply(race.base, race.ops[2]), race.ops[1]) }

\* C9: on every state of Logs, delete(username, date) called twice in a row
\* leaves the sheet that one call leaves.
C9_DeleteIdempotent ==
    \A u \in LoginNames, d \in RaceDates :
        delete_log_from_sheet(delete_log_from_sheet(logs, u, d), u, d)
            = delete_log_from_sheet(logs, u, d)

\* the rows of L that belong to another key, in their order
OtherRows(L, u, d) == SelectSeq(L, LAMBDA r : ~(r[1] = u /\ r[2] = d))

\* C10: delete(username, date) run on its own (the sheet is as it read it when it
\* deletes) leaves no row for the key and every row of another key as it was;
\* with no row for the key, it returns at once and the sheet is unchanged.
C10_DeleteFrame ==
    [][\A s \in Sessions :
          /\ (DelDelete(s) /\ call[s].all_values = logs)
                => /\ KeyRows(logs', call[s].username, call[s].date_str) = {}
                   /\ OtherRows(logs', call[s].username, call[s].date_str)
                          = OtherRows(logs, call[s].username, call[s].date_str)
          /\ \A u \in LoginNames, d \in RaceDates :
                (DelRead(s, u, d) /\ KeyRows(logs, u, d) = {})
                    => logs' = logs /\ pc'[s] = "idle"]_vars

----------------------------------------------------------------------------
(* Claims about the views of a user's history *)

\* the day number of the date of a row
RowDay(k) == toordinal(strptime(DateChars[logs[k][2]]))

\* the types stored for the user of the view on the day numbered n
TypesOn(n) == {logs[k][3] : k \in {j \in UserRows(view.username) : RowDay(j) = n}}

\* C11: for every user and every date the derived day-state is exactly one of
\* Workout, Rest, Missed; it is Missed iff Logs holds no record for the key, Rest
\* iff the stored type is "Rest", Workout iff a record exists with another type.
C11_DayState ==
    view.loaded =>
        \A i \in 1..Len(view.calendar) :
            LET status == view.calendar[i].status
                types == TypesOn(toordinal(view.calendar[i].date))
            IN  /\ status \in {"Workout", "Rest", "Missed"}
                /\ status = "Missed" <=> types = {}
                /\ status = "Rest" <=> types = {"Rest"}
                /\ status = "Workout" <=> \E t \in types : t # "Rest"

\* the part of C11 that no interleaving breaks: one state, Missed iff no record
C11_MissedIffNoRecord ==
    view.loaded =>
        \A i \in 1..Len(view.calendar) :
            /\ view.calendar[i].status \in {"Workout", "Rest", "Missed"}
            /\ view.calendar[i].status = "Missed"
                   <=> TypesOn(toordinal(view.calendar[i].date)) = {}

\* the day numbers of the rows of the user of the view
LoggedDays == {RowDay(k) : k \in UserRows(view.username)}

MinOf(S) == CHOOSE n \in S : \A m \in S : n <= m
MaxOf(S) == CHOOSE n \in S : \A m \in S : m <= n

\* C12: for a non-empty history, workouts + rest + missed = total_days, total_days
\* = (latest logged date - earliest logged date) in days + 1, and every date of
\* the closed range is counted in exactly one bucket: a day without a record as
\* missed, a day with a record as rest or workout by its type.
C12_ConsistencyTotals ==
    (view.loaded /\ LoggedDays # {}) =>
        LET c == view.consistency
            range == MinOf(LoggedDays)..MaxOf(LoggedDays)
        IN  /\ c.chart
            /\ c.total_days = MaxOf(LoggedDays) - MinOf(LoggedDays) + 1
            /\ c.counts.Workouts + c.counts.Rest + c.counts.Missed = c.total_days
            /\ c.counts.Missed = Cardinality({n \in range : TypesOn(n) = {}})
            /\ c.counts.Rest >= Cardinality({n \in range : TypesOn(n) = {"Rest"}})
            /\ c.counts.Workouts
                   >= Cardinality({n \in range : TypesOn(n) # {} /\ "Rest" \notin TypesOn(n)})

\* a workout on 28 February and a rest day on 1 March 2024: three days tracked,
\* one of each kind
C12_Witness ==
    /\ view.loaded
    /\ view.consistency.chart
    /\ view.consistency.total_days = 3
    /\ view.consistency.counts = [Workouts |-> 1, Rest |-> 1, Missed |-> 1]

\* C14: for a user with an empty history the consistency computation produces no
\* summary at all, never one with total_days = 0 or bucket counts.
C14_NoSummaryWhenEmpty ==
    view.loaded =>
        /\ UserRows(view.username) = {} => view.consistency = NoChart
        /\ view.consistency # NoChart => view.consistency.total_days >= 1

\* the page of a user without logs while another user has some
C14_Witness ==
    /\ view.loaded
    /\ UserRows(view.username) = {}
    /\ logs # <<>>
    /\ view.consistency = NoChart

----------------------------------------------------------------------------
(* Claims about the application *)

\* C13: in every state of Logs reachable through the buttons of the page (Mark
\* Rest, a template, Save, Delete) pressed in any number of sessions, every row
\* whose type is "Rest" has an empty list of exercises.
C13_RestHasNoExercises ==
    \A k \in 1..Len(logs) : logs[k][3] = "Rest" => json_loads(logs[k][4]) = <<>>

\* a rest day and an edited workout stored side by side
C13_Witness ==
    /\ \E k \in 1..Len(logs) : logs[k][3] = "Rest"
    /\ \E k \in 1..Len(logs) :
           logs[k][3] # "Rest" /\ json_loads(logs[k][4])[1].sets = EditedSets

\* session s sends the first request of its call that changes the sheet
FirstWrite(s) == SaveDelete(s) \/ (SaveAppend(s) /\ call[s].row = NoRow)

\* C15: when a Save writes to the store, a record for its (username, date) exists
\* with a type other than "Rest", and the Save keeps that type, also when another
\* session of the user deleted or replaced the log after the saving session
\* loaded its page: every row of the key has the type the Save writes.
C15_SaveKeepsExistingLog ==
    [][\A s \in Sessions :
          (call[s].button = "Save" /\ FirstWrite(s)) =>
              /\ KeyRows(logs, call[s].username, call[s].date_str) # {}
              /\ \A k \in KeyRows(logs, call[s].username, call[s].date_str) :
                     logs[k][3] # "Rest" /\ logs[k][3] = call[s].log[1]]_vars

\* a session is inside a call that writes to Logs
Writing(s) == pc[s] \in {"save_read", "save_delete", "save_append", "del_read", "del_delete"}

\* C16: every write to Logs issued by a session happens while that session is
\* logged in and uses the username of the session's last successful
\* authenticate; after Logout a session writes nothing until it has
\* authenticated again.
C16_AccessGating ==
    /\ \A s \in Sessions :
           Writing(s) => /\ session[s].logged_in
                         /\ session[s].auth # <<>>
                         /\ call[s].username = session[s].auth
    /\ \A s \in Sessions :
           ~session[s].logged_in => pc[s] = "idle"

\* a session that has logged out of one account and into the other is writing,
\* while the other session is logged out
C16_Witness ==
    \E s, r \in Sessions :
        /\ pc[s] = "save_append"
        /\ call[s].username = <<"A","l","i">>
        /\ ~session[r].logged_in
        /\ session[r].username = <<"a","l","i">>
        /\ \E k \in 1..Len(logs) : logs[k][1] = <<"a","l","i">>

----------------------------------------------------------------------------
(* Claims about the requests of overlapping calls *)

\* C17: an upsert or delete for the key (u, d) never removes or alters a row of
\* another key, in particular of another user, under every interleaving of the
\* requests of concurrent sessions: each request that changes the sheet leaves
\* the rows of the other keys as they were.
C17_CrossKeyIsolation ==
    [][\A s \in Sessions :
          (SaveDelete(s) \/ SaveAppend(s) \/ DelDelete(s)) =>
              OtherRows(logs', call[s].username, call[s].date_str)
                  = OtherRows(logs, call[s].username, call[s].date_str)]_vars

\* C18: an upsert for a key that already has a record and that fails partway
\* with a storage error (after its delete, before or during its append) leaves
\* the store as it was when the upsert began, with the previous record of the
\* key in it, so that the user can retry.
C18_UpsertAtomicOnFailure ==
    [][\A s \in Sessions :
          (SaveFails(s) /\ KeyRows(call[s].all_values, call[s].username,
                                   call[s].date_str) # {})
              => /\ logs' = call[s].all_values
                 /\ KeyRows(logs', call[s].username, call[s].date_str) # {}]_vars

====
